---- MODULE Spec2Model ----
(***************************************************************************)
(* A model of src/components/modal/index.ts: the Modal class (visibility   *)
(* state machine, backdrop, close listeners, resize and drag gestures) and *)
(* the initModals bootstrapper, over a small model of the DOM (class       *)
(* lists, attributes, listener lists and capture-phase event dispatch).    *)
(***************************************************************************)
EXTENDS Integers, Sequences, FiniteSets, TLC

VARIABLES
    els,        \* per target element: class list and attributes
    insts,      \* the Modal objects constructed so far, in construction order
    backdrops,  \* the [modal-backdrop] children of <body>, in document order
    bodyClasses,\* document.body.classList
    listeners,  \* per DOM node: the registered event listeners, in order
    page,       \* the page's markup: target attributes, handles, triggers
    log,        \* history: the callbacks the last operation invoked, in order
    lastOp,     \* history: the last operation and the state it started from
    clickRun,   \* history: the run of clicks on one trigger since initModals
    given,      \* history: the options argument each Modal was constructed with
    gesture     \* history: the resize and drag gestures, from the events alone

vars ==
    <<els, insts, backdrops, bodyClasses, listeners, page, log, lastOp,
      clickRun, given, gesture>>

\* ---------------------------------------------------------------- bounds
\* Modal objects constructed in one run.
MaxInst == 2
\* Closures of show() that one Modal object has registered on one node.
MaxListeners == 3
\* Modal objects of a page script that constructs several.
MaxModals == 2
\* The largest width and height, in px, a resize target is followed to.
MaxSize == 400
\* The largest translation, in px either way, a drag target is followed to.
MaxTranslate == 120

\* The target elements of the page (elements carrying a modal's id).
Targets == {1, 2}

\* ------------------------------------------------------------- DOM nodes
Node(kind, n) == [kind |-> kind, n |-> n]
DocumentNode == Node("document", 0)
BodyNode == Node("body", 0)
TargetNode(e) == Node("target", e)
\* A proper descendant of target element e (the dialog's content).
InnerNode(e) == Node("inner", e)
BackdropNode(b) == Node("backdrop", b)
\* No element: null, as the targetEl of new Modal() is by default.
NullNode == Node("null", 0)
\* The element with [data-modal-resize-target] inside target element e.
ResizeHandleNode(e) == Node("resizeHandle", e)
\* The element with [data-modal-drag] inside target element e, and a
\* <button> inside that element.
DragAnchorNode(e) == Node("dragAnchor", e)
DragButtonNode(e) == Node("dragButton", e)
\* The k-th element of the page carrying a data-modal-* trigger attribute.
TriggerNode(k) == Node("trigger", k)

\* The nodes an event targeted at t passes through in the capture phase,
\* root first, t last.  Backdrops are appended to <body> (line 528), so
\* they are siblings of the target elements, not descendants.
EventPath(t) ==
    CASE t.kind = "document" -> <<DocumentNode>>
      [] t.kind = "body" -> <<DocumentNode, BodyNode>>
      [] t.kind = "target" -> <<DocumentNode, BodyNode, t>>
      [] t.kind = "inner" -> <<DocumentNode, BodyNode, TargetNode(t.n), t>>
      [] t.kind = "backdrop" -> <<DocumentNode, BodyNode, t>>
      [] t.kind = "resizeHandle" ->
            <<DocumentNode, BodyNode, TargetNode(t.n), t>>
      [] t.kind = "dragAnchor" ->
            <<DocumentNode, BodyNode, TargetNode(t.n), t>>
      [] t.kind = "dragButton" ->
            <<DocumentNode, BodyNode, TargetNode(t.n), DragAnchorNode(t.n), t>>
      [] OTHER -> <<DocumentNode, BodyNode, t>>

\* The world the handlers act on, as one record.  threw: the running
\* handler has thrown; uncaught: some handler of the operation has thrown;
\* stopped: stopPropagation() has been called on the event; prevented:
\* preventDefault() has.
World ==
    [els |-> els, insts |-> insts, backdrops |-> backdrops,
     bodyClasses |-> bodyClasses, listeners |-> listeners,
     modalInstances |-> <<>>, log |-> <<>>, given |-> given,
     threw |-> FALSE, uncaught |-> FALSE, stopped |-> FALSE,
     prevented |-> FALSE]

\* Below, an operator that reads its world more than once takes it as W0
\* and binds W to its value, CHOOSE R \in {body : W \in {W0}} : TRUE, which
\* is the body with W0's value for W.

\* ------------------------------------------------------------ DOM helpers
ClassListAdd(W, e, c) == [W EXCEPT !.els[e].classes = @ \cup {c}]

\* Mutant of ClassListRemove: the class stays.
ClassListRemove_Keeps(W, e, c) == W

ClassListRemove(W, e, c) == [W EXCEPT !.els[e].classes = @ \ {c}]

SetAttribute(W, e, name, value) ==
    [W EXCEPT !.els[e].attrs =
        {p \in @ : p[1] # name} \cup {<<name, value>>}]

RemoveAttribute(W, e, name) ==
    [W EXCEPT !.els[e].attrs = {p \in @ : p[1] # name}]

\* A listener function: a closure or bound method of Modal object inst.
\* id tells apart the closures that successive show() calls create.
Fn(kind, inst, id) == [kind |-> kind, inst |-> inst, id |-> id]

IsRegistered(W, node, type, fn) ==
    \E k \in 1..Len(W.listeners[node]) :
        W.listeners[node][k] = [type |-> type, fn |-> fn]

\* addEventListener: a (type, callback) pair already registered is not
\* registered twice.
AddEventListener(W0, node, type, fn) ==
    CHOOSE R \in {
        IF IsRegistered(W, node, type, fn)
        THEN W
        ELSE [W EXCEPT !.listeners[node] =
                  Append(@, [type |-> type, fn |-> fn])]
        : W \in {W0}} : TRUE

\* removeEventListener: removes the listener with this type and callback,
\* if there is one.
RemoveEventListener(W, node, type, fn) ==
    [W EXCEPT !.listeners[node] =
        SelectSeq(@, LAMBDA l : l # [type |-> type, fn |-> fn])]

\* The smallest closure id of this kind and Modal object that no listener
\* among L carries (an unregistered closure that the object is about to
\* drop its only reference to is garbage, its id is free).
FreshFnId(L, kind, i) ==
    LET used == {L[k].fn.id :
                    k \in {j \in 1..Len(L) :
                            L[j].fn.kind = kind /\ L[j].fn.inst = i}}
    IN  CHOOSE id \in 1..(Cardinality(used) + 1) :
            /\ id \notin used
            /\ \A j \in 1..(id - 1) : j \in used

\* The smallest element id that is neither among the backdrops in the
\* document nor referenced by the _backdropEl of a Modal object other
\* than the i-th.
FreshBackdropId(inDocument, objects, i) ==
    LET used == {inDocument[k] : k \in 1..Len(inDocument)} \cup
                {objects[j]._backdropEl :
                    j \in {x \in 1..Len(objects) : x # i}}
    IN  CHOOSE b \in 1..(Cardinality(used) + 1) :
            /\ b \notin used
            /\ \A j \in 1..(b - 1) : j \in used

\* ------------------------------------------------------------------ Modal
\* The callbacks are told apart by name: "noop" is the empty function.
Default ==
    [placement |-> "center",
     backdropClasses |-> "bg-black bg-opacity-30 fixed inset-0 z-40",
     backdrop |-> "dynamic",
     closable |-> TRUE,
     onHide |-> "noop",
     onShow |-> "noop",
     onToggle |-> "noop"]

_getPlacementClasses(placement) ==
    CASE placement = "top-left" -> {"justify-start", "items-start"}
      [] placement = "top-center" -> {"justify-center", "items-start"}
      [] placement = "top-right" -> {"justify-end", "items-start"}
      [] placement = "center-left" -> {"justify-start", "items-center"}
      [] placement = "center" -> {"justify-center", "items-center"}
      [] placement = "center-right" -> {"justify-end", "items-center"}
      [] placement = "bottom-left" -> {"justify-start", "items-end"}
      [] placement = "bottom-center" -> {"justify-center", "items-end"}
      [] placement = "bottom-right" -> {"justify-end", "items-end"}
      [] OTHER -> {"justify-center", "items-center"}

isVisible(W, i) == ~W.insts[i]._isHidden

isHidden(W, i) == W.insts[i]._isHidden

\* Mutant of _createBackdrop: the `if (this._isHidden)` guard dropped.
_createBackdrop_Unguarded(W0, i) ==
    CHOOSE R \in {
        LET b == FreshBackdropId(W.backdrops, W.insts, i)
        IN  [W EXCEPT !.backdrops = Append(@, b),
                      !.insts[i]._backdropEl = b]
        : W \in {W0}} : TRUE

_createBackdrop(W0, i) ==
    CHOOSE R \in {
        IF W.insts[i]._isHidden
        THEN LET b == FreshBackdropId(W.backdrops, W.insts, i)
             IN  [W EXCEPT !.backdrops = Append(@, b),
                           !.insts[i]._backdropEl = b]
        ELSE W
        : W \in {W0}} : TRUE

\* document.querySelector('[modal-backdrop]') is the first backdrop in
\* document order; on null, .remove() throws a TypeError.
_destroyBackdropEl(W0, i) ==
    CHOOSE R \in {
        IF ~W.insts[i]._isHidden
        THEN IF W.backdrops = <<>>
             THEN [W EXCEPT !.threw = TRUE, !.uncaught = TRUE]
             ELSE [W EXCEPT !.backdrops = Tail(@)]
        ELSE W
        : W \in {W0}} : TRUE

\* Mutant of _setupModalCloseEventListeners: the keydown listener, too, is
\* registered only for the "dynamic" backdrop mode.
_setupModalCloseEventListeners_DynamicOnly(W0, i) ==
    CHOOSE R \in {
        LET e == W.insts[i]._targetEl
            id == FreshFnId(W.listeners[TargetNode(e)], "clickOutside", i)
            kid == FreshFnId(W.listeners[BodyNode], "keydown", i)
        IN  IF W.insts[i]._options.backdrop = "dynamic"
            THEN AddEventListener(
                     AddEventListener(
                         [W EXCEPT
                            !.insts[i]._clickOutsideEventListener = id,
                            !.insts[i]._keydownEventListener = kid],
                         TargetNode(e), "mouseup", Fn("clickOutside", i, id)),
                     BodyNode, "keydown", Fn("keydown", i, kid))
            ELSE W
        : W \in {W0}} : TRUE

\* Mutant of _setupModalCloseEventListeners: the mouseup listener is
\* registered whatever the backdrop mode.
_setupModalCloseEventListeners_AnyBackdrop(W0, i) ==
    CHOOSE R \in {
        LET e == W.insts[i]._targetEl
            id == FreshFnId(W.listeners[TargetNode(e)], "clickOutside", i)
            kid == FreshFnId(W.listeners[BodyNode], "keydown", i)
        IN  AddEventListener(
                AddEventListener(
                    [W EXCEPT
                       !.insts[i]._clickOutsideEventListener = id,
                       !.insts[i]._keydownEventListener = kid],
                    TargetNode(e), "mouseup", Fn("clickOutside", i, id)),
                BodyNode, "keydown", Fn("keydown", i, kid))
        : W \in {W0}} : TRUE

_setupModalCloseEventListeners(W0, i) ==
    CHOOSE R \in {
        LET e == W.insts[i]._targetEl
            id == FreshFnId(W.listeners[TargetNode(e)], "clickOutside", i)
            kid == FreshFnId(W.listeners[BodyNode], "keydown", i)
            W1 == IF W.insts[i]._options.backdrop = "dynamic"
                  THEN AddEventListener(
                           [W EXCEPT
                              !.insts[i]._clickOutsideEventListener = id],
                           TargetNode(e), "mouseup",
                           Fn("clickOutside", i, id))
                  ELSE W
        IN  AddEventListener(
                [W1 EXCEPT !.insts[i]._keydownEventListener = kid],
                BodyNode, "keydown", Fn("keydown", i, kid))
        : W \in {W0}} : TRUE

_removeModalCloseEventListeners(W0, i) ==
    CHOOSE R \in {
        LET e == W.insts[i]._targetEl
            W1 == IF W.insts[i]._options.backdrop = "dynamic"
                  THEN RemoveEventListener(W, TargetNode(e), "click",
                           Fn("clickOutside", i,
                              W.insts[i]._clickOutsideEventListener))
                  ELSE W
        IN  RemoveEventListener(W1, BodyNode, "keydown",
                Fn("keydown", i, W.insts[i]._keydownEventListener))
        : W \in {W0}} : TRUE

\* `if (this.isHidden)` and `if (this.isVisible)` test the method objects
\* themselves, not their results: a function is truthy in every state.
MethodIsTruthy(W, i, method) == TRUE

show(W0, i) ==
    CHOOSE R \in {
        IF MethodIsTruthy(W, i, "isHidden")
        THEN LET e == W.insts[i]._targetEl
                 W1 == ClassListAdd(W, e, "flex")
                 W2 == ClassListRemove(W1, e, "hidden")
                 W3 == SetAttribute(W2, e, "aria-modal", "true")
                 W4 == SetAttribute(W3, e, "role", "dialog")
                 W5 == RemoveAttribute(W4, e, "aria-hidden")
                 W6 == _createBackdrop(W5, i)
                 W7 == [W6 EXCEPT !.insts[i]._isHidden = FALSE,
                                  !.bodyClasses = @ \cup {"overflow-hidden"}]
                 W8 == IF W.insts[i]._options.closable
                       THEN _setupModalCloseEventListeners(W7, i)
                       ELSE W7
             IN  [W8 EXCEPT !.log = Append(@, <<"onShow", i>>)]
        ELSE W
        : W \in {W0}} : TRUE

hide(W0, i) ==
    CHOOSE R \in {
        IF MethodIsTruthy(W, i, "isVisible")
        THEN LET e == W.insts[i]._targetEl
                 W1 == ClassListAdd(W, e, "hidden")
                 W2 == ClassListRemove(W1, e, "flex")
                 W3 == SetAttribute(W2, e, "aria-hidden", "true")
                 W4 == RemoveAttribute(W3, e, "aria-modal")
                 W5 == RemoveAttribute(W4, e, "role")
             IN  CHOOSE R6 \in {
                     IF W6.threw
                     THEN W6
                     ELSE LET W7 == [W6 EXCEPT
                                  !.insts[i]._isHidden = TRUE,
                                  !.bodyClasses = @ \ {"overflow-hidden"}]
                              W8 == IF W.insts[i]._options.closable
                                    THEN _removeModalCloseEventListeners(W7, i)
                                    ELSE W7
                          IN  [W8 EXCEPT !.log = Append(@, <<"onHide", i>>)]
                     : W6 \in {_destroyBackdropEl(W5, i)}} : TRUE
        ELSE W
        : W \in {W0}} : TRUE

\* Mutant of toggle: the branch tests the method object, as show() does.
toggle_MethodTest(W0, i) ==
    CHOOSE R \in {
        IF W1.threw
        THEN W1
        ELSE [W1 EXCEPT !.log = Append(@, <<"onToggle", i>>)]
        : W1 \in {CHOOSE R1 \in {
                      IF MethodIsTruthy(W, i, "isHidden")
                      THEN show(W, i)
                      ELSE hide(W, i)
                      : W \in {W0}} : TRUE}} : TRUE

toggle(W0, i) ==
    CHOOSE R \in {
        IF W1.threw
        THEN W1
        ELSE [W1 EXCEPT !.log = Append(@, <<"onToggle", i>>)]
        : W1 \in {CHOOSE R1 \in {
                      IF W.insts[i]._isHidden THEN show(W, i) ELSE hide(W, i)
                      : W \in {W0}} : TRUE}} : TRUE

\* Mutant of _handleOutsideClick: a release anywhere hides the modal.
_handleOutsideClick_AnyTarget(W0, i, target) == hide(W0, i)

_handleOutsideClick(W0, i, target) ==
    CHOOSE R \in {
        IF \/ target = TargetNode(W.insts[i]._targetEl)
           \/ (/\ target = BackdropNode(W.insts[i]._backdropEl)
               /\ isVisible(W, i))
        THEN hide(W, i)
        ELSE W
        : W \in {W0}} : TRUE

\* The closures show() registers: (ev) => this._handleOutsideClick(ev.target)
\* and (ev) => { if (ev.key === 'Escape') this.hide(); }.
_clickOutsideEventListener(W, i, ev) == _handleOutsideClick(W, i, ev.target)

\* Mutant of _keydownEventListener: the key is not looked at.
_keydownEventListener_AnyKey(W, i, ev) == hide(W, i)

_keydownEventListener(W, i, ev) ==
    IF ev.key = "Escape" THEN hide(W, i) ELSE W

\* ------------------------------------------------------- resize and drag
MinResizeWidth == 200
MinResizeHeight == 100

Max(a, b) == IF a >= b THEN a ELSE b

\* An event: its type, its target node, the key (keyboard events) and the
\* pointer position (mouse events).
Event(type, target, key, x, y) ==
    [type |-> type, target |-> target, key |-> key, pageX |-> x, pageY |-> y]

__onResizeMouseDown(W0, i, ev) ==
    CHOOSE R \in {
        LET e == W.insts[i]._targetEl
            W1 == [W EXCEPT
                     !.stopped = TRUE, !.prevented = TRUE,
                     !.insts[i]._modalWidthBeforeResize = W.els[e].width,
                     !.insts[i]._modalHeightBeforeResize = W.els[e].height,
                     !.insts[i]._resizeMouseDownX = ev.pageX,
                     !.insts[i]._resizeMouseDownY = ev.pageY]
            W2 == AddEventListener(W1, DocumentNode, "mousemove",
                                   Fn("_onResizeMouseMove", i, 0))
        IN  AddEventListener(W2, DocumentNode, "mouseup",
                             Fn("_onResizeMouseUp", i, 0))
        : W \in {W0}} : TRUE

\* Mutant of __onResizeMouseMove: the delta is added to the current size,
\* not to the size recorded at pointer-down.
__onResizeMouseMove_FromCurrent(W0, i, ev) ==
    CHOOSE R \in {
        LET e == W.insts[i]._targetEl
            deltaX == ev.pageX - W.insts[i]._resizeMouseDownX
            deltaY == ev.pageY - W.insts[i]._resizeMouseDownY
            newWidth == Max(MinResizeWidth, W.els[e].width + deltaX)
            newHeight == Max(MinResizeHeight, W.els[e].height + deltaY)
        IN  [W EXCEPT !.stopped = TRUE,
                      !.els[e].width = newWidth,
                      !.els[e].height = newHeight]
        : W \in {W0}} : TRUE

__onResizeMouseMove(W0, i, ev) ==
    CHOOSE R \in {
        LET e == W.insts[i]._targetEl
            deltaX == ev.pageX - W.insts[i]._resizeMouseDownX
            deltaY == ev.pageY - W.insts[i]._resizeMouseDownY
            newWidth == Max(MinResizeWidth,
                            W.insts[i]._modalWidthBeforeResize + deltaX)
            newHeight == Max(MinResizeHeight,
                             W.insts[i]._modalHeightBeforeResize + deltaY)
        IN  [W EXCEPT !.stopped = TRUE, !.prevented = TRUE,
                      !.els[e].width = newWidth,
                      !.els[e].height = newHeight]
        : W \in {W0}} : TRUE

\* Mutant of __onResizeMouseUp: the move listener is left on the document.
__onResizeMouseUp_KeepsMove(W, i, ev) ==
    RemoveEventListener([W EXCEPT !.stopped = TRUE], DocumentNode, "mouseup",
                        Fn("_onResizeMouseUp", i, 0))

__onResizeMouseUp(W, i, ev) ==
    LET W1 == [W EXCEPT !.stopped = TRUE]
        W2 == RemoveEventListener(W1, DocumentNode, "mousemove",
                                  Fn("_onResizeMouseMove", i, 0))
    IN  RemoveEventListener(W2, DocumentNode, "mouseup",
                            Fn("_onResizeMouseUp", i, 0))

\* Mutant of ClosestAOrButton: no element counts as a control.
ClosestAOrButton_Never(target) == FALSE

\* eventTargetEl.closest('a, button'): the event target is, or is inside,
\* an <a> or a <button>.
ClosestAOrButton(target) == target.kind = "dragButton"

__onDragMouseDown(W, i, ev) ==
    IF ClosestAOrButton(ev.target)
    THEN W
    ELSE LET W1 == [W EXCEPT !.stopped = TRUE, !.prevented = TRUE,
                             !.insts[i]._dragMouseDownX = ev.pageX,
                             !.insts[i]._dragMouseDownY = ev.pageY]
             W2 == AddEventListener(W1, DocumentNode, "mousemove",
                                    Fn("_onDragMouseMove", i, 0))
         IN  AddEventListener(W2, DocumentNode, "mouseup",
                              Fn("_onDragMouseUp", i, 0))

__onDragMouseMove(W0, i, ev) ==
    CHOOSE R \in {
        LET e == W.insts[i]._targetEl
            deltaX == ev.pageX - W.insts[i]._dragMouseDownX
            deltaY == ev.pageY - W.insts[i]._dragMouseDownY
            newX == W.insts[i]._dragXBeforeDragging + deltaX
            newY == W.insts[i]._dragYBeforeDragging + deltaY
        IN  [W EXCEPT !.stopped = TRUE, !.prevented = TRUE,
                      !.insts[i]._currentDragX = newX,
                      !.insts[i]._currentDragY = newY,
                      !.els[e].translateX = newX,
                      !.els[e].translateY = newY]
        : W \in {W0}} : TRUE

\* Mutant of __onDragMouseUp: the translation reached is not made the
\* baseline of the next gesture.
__onDragMouseUp_NoBaseline(W0, i, ev) ==
    CHOOSE R \in {
        LET W1 == [W EXCEPT !.stopped = TRUE]
            W2 == RemoveEventListener(W1, DocumentNode, "mousemove",
                                      Fn("_onDragMouseMove", i, 0))
        IN  RemoveEventListener(W2, DocumentNode, "mouseup",
                                Fn("_onDragMouseUp", i, 0))
        : W \in {W0}} : TRUE

__onDragMouseUp(W0, i, ev) ==
    CHOOSE R \in {
        LET W1 == [W EXCEPT
                     !.stopped = TRUE,
                     !.insts[i]._dragXBeforeDragging =
                         W.insts[i]._currentDragX,
                     !.insts[i]._dragYBeforeDragging =
                         W.insts[i]._currentDragY]
            W2 == RemoveEventListener(W1, DocumentNode, "mousemove",
                                      Fn("_onDragMouseMove", i, 0))
        IN  RemoveEventListener(W2, DocumentNode, "mouseup",
                                Fn("_onDragMouseUp", i, 0))
        : W \in {W0}} : TRUE

\* ------------------------------------------------------------ constructor
\* Mutant of MergeOptions: { ...options, ...Default }, the defaults win.
MergeOptions_DefaultsWin(options) ==
    [k \in DOMAIN Default \cup DOMAIN options |-> 
        IF k \in DOMAIN Default THEN Default[k] ELSE options[k]]

\* { ...Default, ...options }
MergeOptions(options) ==
    [k \in DOMAIN Default \cup DOMAIN options |->
        IF k \in DOMAIN options THEN options[k] ELSE Default[k]]

\* The numeric gesture fields are declared without initialisers; each is
\* written by the pointer-down handler before any handler reads it.
NewModal(e, options) ==
    [_targetEl |-> e,
     _options |-> MergeOptions(options),
     _isHidden |-> TRUE,
     _backdropEl |-> 0,
     _clickOutsideEventListener |-> 0,
     _keydownEventListener |-> 0,
     _resizeTargetEl |-> FALSE,
     _modalWidthBeforeResize |-> 0,
     _modalHeightBeforeResize |-> 0,
     _resizeMouseDownX |-> 0,
     _resizeMouseDownY |-> 0,
     _dragAnchorEl |-> FALSE,
     _dragTargetEl |-> FALSE,
     _dragXBeforeDragging |-> 0,
     _dragYBeforeDragging |-> 0,
     _currentDragX |-> 0,
     _currentDragY |-> 0,
     _dragMouseDownX |-> 0,
     _dragMouseDownY |-> 0]

\* A null _targetEl (0) skips the placement classes only: the querySelector
\* call on it that follows throws a TypeError.
_init(W0, i) ==
    CHOOSE R \in {
        LET e == W.insts[i]._targetEl
            W1 == [W EXCEPT !.els[e].classes = @ \cup
                      _getPlacementClasses(W.insts[i]._options.placement)]
            W2 == IF page.targets[e].resize
                  THEN AddEventListener(
                           [W1 EXCEPT !.insts[i]._resizeTargetEl = TRUE],
                           ResizeHandleNode(e), "mousedown",
                           Fn("_onResizeMouseDown", i, 0))
                  ELSE W1
        IN  IF e = 0
            THEN [W EXCEPT !.threw = TRUE, !.uncaught = TRUE]
            ELSE IF page.targets[e].drag
            THEN AddEventListener(
                     [W2 EXCEPT !.insts[i]._dragAnchorEl = TRUE,
                                !.insts[i]._dragTargetEl = TRUE],
                     DragAnchorNode(e), "mousedown",
                     Fn("_onDragMouseDown", i, 0))
            ELSE W2
        : W \in {W0}} : TRUE

\* new Modal(targetEl, options): the new object is the last of insts. When
\* _init throws, the new expression yields no object, and none is kept.
Constructor(W0, e, options) ==
    CHOOSE R \in {
        LET W1 == _init([W EXCEPT !.insts = Append(@, NewModal(e, options)),
                                  !.given = Append(@, options)],
                        Len(W.insts) + 1)
        IN  IF W1.threw
            THEN [W1 EXCEPT !.insts = W.insts, !.given = W.given]
            ELSE W1
        : W \in {W0}} : TRUE

\* ---------------------------------------------------------- event dispatch
\* What a registered listener function does when invoked with an event.
Invoke(W, fn, ev) ==
    CASE fn.kind = "clickOutside" -> _clickOutsideEventListener(W, fn.inst, ev)
      [] fn.kind = "keydown" -> _keydownEventListener(W, fn.inst, ev)
      [] fn.kind = "_onResizeMouseDown" -> __onResizeMouseDown(W, fn.inst, ev)
      [] fn.kind = "_onResizeMouseMove" -> __onResizeMouseMove(W, fn.inst, ev)
      [] fn.kind = "_onResizeMouseUp" -> __onResizeMouseUp(W, fn.inst, ev)
      [] fn.kind = "_onDragMouseDown" -> __onDragMouseDown(W, fn.inst, ev)
      [] fn.kind = "_onDragMouseMove" -> __onDragMouseMove(W, fn.inst, ev)
      [] fn.kind = "_onDragMouseUp" -> __onDragMouseUp(W, fn.inst, ev)
      [] fn.kind = "toggleClick" -> toggle(W, fn.inst)
      [] fn.kind = "showClick" ->
            IF MethodIsTruthy(W, fn.inst, "isHidden")
            THEN show(W, fn.inst)
            ELSE W
      [] fn.kind = "hideClick" ->
            IF MethodIsTruthy(W, fn.inst, "isVisible")
            THEN hide(W, fn.inst)
            ELSE W
      [] OTHER -> W

\* The listeners L registered on node when the event arrived there, from
\* the k-th on: each runs if it is of the event's type and has not been
\* removed meanwhile; an exception in one listener does not stop the others.
RECURSIVE InvokeListeners(_, _, _, _, _)
InvokeListeners(W0, node, L, k, ev) ==
    IF k > Len(L)
    THEN W0
    ELSE CHOOSE R \in {
             InvokeListeners(
                 IF /\ L[k].type = ev.type
                    /\ IsRegistered(W, node, L[k].type, L[k].fn)
                 THEN Invoke([W EXCEPT !.threw = FALSE], L[k].fn, ev)
                 ELSE W,
                 node, L, k + 1, ev)
             : W \in {W0}} : TRUE

\* The event travels down path; stopPropagation() lets the remaining
\* listeners of the current node run and keeps the event from the nodes
\* below.
RECURSIVE Propagate(_, _, _, _)
Propagate(W0, path, k, ev) ==
    CHOOSE R \in {
        IF k > Len(path) \/ W.stopped
        THEN W
        ELSE Propagate(
                 IF path[k] \in DOMAIN W.listeners
                 THEN InvokeListeners(W, path[k], W.listeners[path[k]], 1, ev)
                 ELSE W,
                 path, k + 1, ev)
        : W \in {W0}} : TRUE

DispatchEvent(W, ev) == Propagate(W, EventPath(ev.target), 1, ev)

\* ---------------------------------------------------------------- initModals
\* The index (in insts) of the Modal registered under id, 0 for null.
getModalInstance(id, instances) ==
    IF \E k \in 1..Len(instances) : instances[k].id = id
    THEN LET k == CHOOSE k \in 1..Len(instances) :
                    /\ instances[k].id = id
                    /\ \A j \in 1..(k - 1) : instances[j].id # id
         IN  instances[k].object
    ELSE 0

\* document.getElementById(modalId) finds an element.
ElementExists(id) == id \in Targets

\* The options initModals reads from the target element's attributes; an
\* absent (null) or empty attribute is falsy.
AttributeOptions(e) ==
    [placement |-> IF page.targets[e].placement # ""
                   THEN page.targets[e].placement
                   ELSE Default.placement,
     backdrop |-> IF page.targets[e].backdrop # ""
                  THEN page.targets[e].backdrop
                  ELSE Default.backdrop]

\* Mutant of ConsoleError: nothing is reported.
ConsoleError_Silent(W, k) == W

ConsoleError(W, k) == [W EXCEPT !.log = Append(@, <<"console.error", k>>)]

\* new Modal(...) pushed onto modalInstances under modalId.
PushInstance(W0, modalId) ==
    CHOOSE R \in {
        [W EXCEPT !.modalInstances =
            Append(@, [id |-> modalId, object |-> Len(W.insts)])]
        : W \in {Constructor(W0, modalId, AttributeOptions(modalId))}} : TRUE

\* A click listener (a fresh arrow function) on the k-th trigger.
\* Mutant of AddClickListener: the handler bound always toggles.
AddClickListener_Toggles(W0, k, kind, i) ==
    CHOOSE R \in {
        AddEventListener(W, TriggerNode(k), "click",
            Fn("toggleClick", i,
               FreshFnId(W.listeners[TriggerNode(k)], "toggleClick", i)))
        : W \in {W0}} : TRUE

AddClickListener(W0, k, kind, i) ==
    CHOOSE R \in {
        AddEventListener(W, TriggerNode(k), "click",
            Fn(kind, i, FreshFnId(W.listeners[TriggerNode(k)], kind, i)))
        : W \in {W0}} : TRUE

TargetTrigger(W0, k) ==
    CHOOSE R \in {
        LET modalId == page.triggers[k].id
        IN  IF ElementExists(modalId)
            THEN IF getModalInstance(modalId, W.modalInstances) = 0
                 THEN PushInstance(W, modalId)
                 ELSE W
            ELSE ConsoleError(W, k)
        : W \in {W0}} : TRUE

\* Mutant of ToggleTrigger: the click handler of the show loop is bound.
ToggleTrigger_BindsShow(W0, k) ==
    CHOOSE R \in {
        LET modalId == page.triggers[k].id
        IN  IF ElementExists(modalId)
            THEN CHOOSE R1 \in {
                     AddClickListener(W1, k, "showClick",
                         getModalInstance(modalId, W1.modalInstances))
                     : W1 \in {IF getModalInstance(modalId,
                                       W.modalInstances) = 0
                               THEN PushInstance(W, modalId)
                               ELSE W}} : TRUE
            ELSE ConsoleError(W, k)
        : W \in {W0}} : TRUE

\* Mutant of ToggleTrigger: a Modal is constructed without a look at
\* modalInstances.
ToggleTrigger_AlwaysNew(W0, k) ==
    CHOOSE R \in {
        LET modalId == page.triggers[k].id
        IN  IF ElementExists(modalId)
            THEN CHOOSE R1 \in {
                     AddClickListener(W1, k, "toggleClick", Len(W1.insts))
                     : W1 \in {PushInstance(W, modalId)}} : TRUE
            ELSE ConsoleError(W, k)
        : W \in {W0}} : TRUE

ToggleTrigger(W0, k) ==
    CHOOSE R \in {
        LET modalId == page.triggers[k].id
        IN  IF ElementExists(modalId)
            THEN CHOOSE R1 \in {
                     AddClickListener(W1, k, "toggleClick",
                         getModalInstance(modalId, W1.modalInstances))
                     : W1 \in {IF getModalInstance(modalId,
                                       W.modalInstances) = 0
                               THEN PushInstance(W, modalId)
                               ELSE W}} : TRUE
            ELSE ConsoleError(W, k)
        : W \in {W0}} : TRUE

ShowTrigger(W0, k) ==
    CHOOSE R \in {
        LET modalId == page.triggers[k].id
            modal == getModalInstance(modalId, W.modalInstances)
        IN  IF ElementExists(modalId)
            THEN IF modal # 0
                 THEN AddClickListener(W, k, "showClick", modal)
                 ELSE ConsoleError(W, k)
            ELSE ConsoleError(W, k)
        : W \in {W0}} : TRUE

HideTrigger(W0, k) ==
    CHOOSE R \in {
        LET modalId == page.triggers[k].id
            modal == getModalInstance(modalId, W.modalInstances)
        IN  IF ElementExists(modalId)
            THEN IF modal # 0
                 THEN AddClickListener(W, k, "hideClick", modal)
                 ELSE ConsoleError(W, k)
            ELSE ConsoleError(W, k)
        : W \in {W0}} : TRUE

\* document.querySelectorAll('[attr]').forEach(...): the triggers carrying
\* attr, in document order, from the k-th on.
RECURSIVE ForEachTrigger(_, _, _)
ForEachTrigger(W, attr, k) ==
    IF k > Len(page.triggers)
    THEN W
    ELSE ForEachTrigger(
             IF page.triggers[k].attr # attr THEN W
             ELSE CASE attr = "data-modal-target" -> TargetTrigger(W, k)
                    [] attr = "data-modal-toggle" -> ToggleTrigger(W, k)
                    [] attr = "data-modal-show" -> ShowTrigger(W, k)
                    [] attr = "data-modal-hide" -> HideTrigger(W, k)
                    [] OTHER -> W,
             attr, k + 1)

initModals(W) ==
    LET W0 == [W EXCEPT !.modalInstances = <<>>]
        W1 == ForEachTrigger(W0, "data-modal-target", 1)
        W2 == ForEachTrigger(W1, "data-modal-toggle", 1)
        W3 == ForEachTrigger(W2, "data-modal-show", 1)
    IN  ForEachTrigger(W3, "data-modal-hide", 1)

\* ------------------------------------------------------------------- pages
\* The usual markup of a closed modal: class "hidden", aria-hidden="true".
ClosedMarkup == [classes |-> {"hidden"}, attrs |-> {<<"aria-hidden", "true">>}]

\* Every combination of the classes and attributes show()/hide() touch.
Markups ==
    [classes : SUBSET {"hidden", "flex"},
     attrs : SUBSET {<<"aria-hidden", "true">>, <<"aria-modal", "true">>,
                     <<"role", "dialog">>}]

\* Target 1: the given markup, no data-modal-* options, a resize handle and
\* a drag anchor.  Target 2: closed markup, data-modal-placement="top-left",
\* data-modal-backdrop="static", no handles.  Trigger ids 1 and 2 resolve to
\* the targets, id 3 to no element.
PageWith(markup) ==
    [targets |->
        [e \in Targets |->
            IF e = 1
            THEN [markup |-> markup, placement |-> "", backdrop |-> "",
                  resize |-> TRUE, drag |-> TRUE]
            ELSE [markup |-> ClosedMarkup, placement |-> "top-left",
                  backdrop |-> "static", resize |-> FALSE, drag |-> FALSE]],
     triggers |->
        <<[attr |-> "data-modal-toggle", id |-> 1],
          [attr |-> "data-modal-target", id |-> 2],
          [attr |-> "data-modal-show", id |-> 2],
          [attr |-> "data-modal-hide", id |-> 2],
          [attr |-> "data-modal-show", id |-> 3]>>]

\* The markups of the pages that take every event: closed, with nothing, and
\* looking open.
MainMarkups ==
    {ClosedMarkup,
     [classes |-> {}, attrs |-> {}],
     [classes |-> {"flex"},
      attrs |-> {<<"aria-modal", "true">>, <<"role", "dialog">>}]}

Pages == {PageWith(m) : m \in MainMarkups}

AllPages == {PageWith(m) : m \in Markups}

\* The options a caller passes to new Modal(el, options); <<>> is {}.
OptionInputs ==
    {<<>>,
     [closable |-> FALSE],
     [backdrop |-> "static"],
     [placement |-> "bottom-right", backdrop |-> "dynamic"]}

\* The pointer positions of the mouse events.
Pointers == {<<0, 0>>}

Keys == {"Escape", "Enter"}

\* ----------------------------------------------------------------- history
NoPre == [classes |-> {}, attrs |-> {}, backdrops |-> 0]

NoOp ==
    [op |-> "none", inst |-> 0, wasHidden |-> FALSE, target |-> DocumentNode,
     key |-> "", x |-> 0, y |-> 0, threw |-> FALSE, stopped |-> FALSE,
     prevented |-> FALSE, prev |-> "none", pre |-> NoPre]

\* The record of an operation on Modal object i (0: none), taken before it.
\* prev is the operation before it, told apart only where a show() of the
\* same object, called while it was hidden, is followed by its hide(); pre
\* is then the target element and the number of backdrops before that show().
Op(op, i, target, key) ==
    [op |-> op, inst |-> i,
     wasHidden |-> IF i = 0 THEN FALSE ELSE insts[i]._isHidden,
     target |-> target, key |-> key, x |-> 0, y |-> 0, threw |-> FALSE,
     stopped |-> FALSE, prevented |-> FALSE,
     prev |-> IF /\ op = "hide"
                 /\ lastOp.op = "show" /\ lastOp.inst = i /\ lastOp.wasHidden
              THEN "show"
              ELSE "other",
     pre |-> IF op = "show" /\ insts[i]._isHidden
             THEN [classes |-> els[insts[i]._targetEl].classes,
                   attrs |-> els[insts[i]._targetEl].attrs,
                   backdrops |-> Len(backdrops)]
             ELSE IF /\ op = "hide"
                     /\ lastOp.op = "show" /\ lastOp.inst = i
                     /\ lastOp.wasHidden
                  THEN lastOp.pre
                  ELSE NoPre]

\* The record op of a mouse event, with the pointer position p.
At(op, p) == [op EXCEPT !.x = p[1], !.y = p[2]]

\* No pointer-down yet.
NoGesture ==
    [rOn |-> FALSE, rX0 |-> 0, rY0 |-> 0, rW |-> 0, rH |-> 0,
     dOn |-> FALSE, dX0 |-> 0, dY0 |-> 0,
     dSumX |-> 0, dSumY |-> 0, dLastX |-> 0, dLastY |-> 0,
     regular |-> TRUE]

\* The gestures after the event op, told from the events alone.  rOn: a
\* pointer-down on a wired resize handle has not been followed by a
\* pointer-up; rX0, rY0, rW, rH: the pointer and the target's size at that
\* pointer-down.  dOn, dX0, dY0: the same for the drag anchor (a
\* pointer-down on an <a> or <button> inside it starts nothing); dLastX,
\* dLastY: the pointer delta of the gesture's last move; dSumX, dSumY: the
\* sum of the last deltas of the gestures ended; regular: no pointer-down
\* on the anchor has arrived while a drag gesture was under way.
GestureAfter(op) ==
    LET wired(field) ==
            \E i \in 1..Len(insts) :
                insts[i]._targetEl = op.target.n /\ insts[i][field]
    IN  CASE op.op = "mousedown" /\ op.target.kind = "resizeHandle"
                /\ wired("_resizeTargetEl") ->
                [gesture EXCEPT !.rOn = TRUE, !.rX0 = op.x, !.rY0 = op.y,
                                !.rW = els[op.target.n].width,
                                !.rH = els[op.target.n].height]
          [] op.op = "mousedown" /\ op.target.kind = "dragAnchor"
                /\ wired("_dragAnchorEl") ->
                [gesture EXCEPT !.dOn = TRUE, !.dX0 = op.x, !.dY0 = op.y,
                                !.regular = @ /\ ~gesture.dOn]
          [] op.op = "mousemove" /\ gesture.dOn ->
                [gesture EXCEPT !.dLastX = op.x - gesture.dX0,
                                !.dLastY = op.y - gesture.dY0]
          [] op.op = "mouseup" ->
                [gesture EXCEPT !.rOn = FALSE, !.dOn = FALSE,
                                !.dSumX = @ + gesture.dLastX,
                                !.dSumY = @ + gesture.dLastY,
                                !.dLastX = 0, !.dLastY = 0]
          [] OTHER -> gesture

\* phase: "start" (nothing has run), "inited" (initModals has run, once, as
\* the first operation), "clicking" (since then only clicks on trigger k
\* have happened; odd tells whether their number is odd), "mixed" (else).
ClickRunAfter(op, k) ==
    CASE op = "initModals" /\ clickRun.phase = "start" ->
            [phase |-> "inited", k |-> 0, odd |-> FALSE]
      [] op = "click" /\ clickRun.phase = "inited" ->
            [phase |-> "clicking", k |-> k, odd |-> TRUE]
      [] op = "click" /\ clickRun.phase = "clicking" /\ clickRun.k = k ->
            [phase |-> "clicking", k |-> k, odd |-> ~clickRun.odd]
      [] OTHER -> [phase |-> "mixed", k |-> 0, odd |-> FALSE]

\* The closures of show() that Modal object i has registered among L.
CloseListeners(L, i) ==
    {k \in 1..Len(L) :
        /\ L[k].fn.inst = i
        /\ L[k].fn.kind \in {"clickOutside", "keydown"}}

WithinBounds(W) ==
    /\ Len(W.insts) <= MaxInst
    /\ \A e \in Targets :
          /\ W.els[e].width <= MaxSize
          /\ W.els[e].height <= MaxSize
          /\ W.els[e].translateX \in -MaxTranslate..MaxTranslate
          /\ W.els[e].translateY \in -MaxTranslate..MaxTranslate
    /\ \A node \in DOMAIN W.listeners : \A i \in 1..Len(W.insts) :
          Cardinality(CloseListeners(W.listeners[node], i)) <= MaxListeners

\* The step to world W by operation op (on trigger k, for a click).
Commit(W0, op, k) ==
    \E W \in {W0} :
        /\ WithinBounds(W)
        /\ els' = W.els
        /\ insts' = W.insts
        /\ backdrops' = W.backdrops
        /\ bodyClasses' = W.bodyClasses
        /\ listeners' = W.listeners
        /\ log' = W.log
        /\ lastOp' = [op EXCEPT !.threw = W.uncaught,
                                !.stopped = W.stopped,
                                !.prevented = W.prevented]
        /\ clickRun' = ClickRunAfter(op.op, k)
        /\ given' = W.given
        /\ gesture' = GestureAfter(op)
        /\ UNCHANGED page

\* ----------------------------------------------------------------- actions
\* initModals()
CallInitModals ==
    Commit(initModals(World), Op("initModals", 0, DocumentNode, ""), 0)

\* modal.show(), modal.hide(), modal.toggle()
CallShow(i) ==
    /\ i \in 1..Len(insts)
    /\ Commit(show(World, i), Op("show", i, DocumentNode, ""), 0)

CallHide(i) ==
    /\ i \in 1..Len(insts)
    /\ Commit(hide(World, i), Op("hide", i, DocumentNode, ""), 0)

CallToggle(i) ==
    /\ i \in 1..Len(insts)
    /\ Commit(toggle(World, i), Op("toggle", i, DocumentNode, ""), 0)

\* A click on the k-th trigger element.
Click(k) ==
    Commit(DispatchEvent(World, Event("click", TriggerNode(k), "", 0, 0)),
           Op("click", 0, TriggerNode(k), ""), k)

\* The elements a mouse event can target: the target elements and what is
\* inside them, the backdrops in the document, and the rest of the page.
MouseTargets ==
    {BodyNode}
        \cup {TargetNode(e) : e \in Targets}
        \cup {InnerNode(e) : e \in Targets}
        \cup {BackdropNode(backdrops[k]) : k \in 1..Len(backdrops)}
        \cup {ResizeHandleNode(e) : e \in {x \in Targets : page.targets[x].resize}}
        \cup {DragAnchorNode(e) : e \in {x \in Targets : page.targets[x].drag}}
        \cup {DragButtonNode(e) : e \in {x \in Targets : page.targets[x].drag}}

MouseDown(t, p) ==
    Commit(DispatchEvent(World, Event("mousedown", t, "", p[1], p[2])),
           At(Op("mousedown", 0, t, ""), p), 0)

MouseMove(t, p) ==
    Commit(DispatchEvent(World, Event("mousemove", t, "", p[1], p[2])),
           At(Op("mousemove", 0, t, ""), p), 0)

MouseUp(t, p) ==
    Commit(DispatchEvent(World, Event("mouseup", t, "", p[1], p[2])),
           At(Op("mouseup", 0, t, ""), p), 0)

\* A key pressed with the focus somewhere in <body>.
KeyDown(key) ==
    Commit(DispatchEvent(World, Event("keydown", BodyNode, key, 0, 0)),
           Op("keydown", 0, BodyNode, key), 0)

\* ----------------------------------------------------------- specifications
\* The loaded page pg before any script has run.
LoadedPage(pg) ==
    [els |-> [e \in Targets |->
                [classes |-> pg.targets[e].markup.classes,
                 attrs |-> pg.targets[e].markup.attrs,
                 width |-> 250, height |-> 120,
                 translateX |-> 0, translateY |-> 0]],
     insts |-> <<>>,
     backdrops |-> <<>>,
     bodyClasses |-> {},
     listeners |->
        [node \in {DocumentNode, BodyNode}
            \cup {TargetNode(e) : e \in Targets}
            \cup {ResizeHandleNode(e) : e \in Targets}
            \cup {DragAnchorNode(e) : e \in Targets}
            \cup {TriggerNode(k) : k \in 1..Len(pg.triggers)} |-> <<>>],
     modalInstances |-> <<>>, log |-> <<>>, given |-> <<>>,
     threw |-> FALSE, uncaught |-> FALSE, stopped |-> FALSE,
     prevented |-> FALSE]

\* The state in which the page's script has left world W.
InitFrom(W0) ==
    \E W \in {W0} :
    /\ els = W.els
    /\ insts = W.insts
    /\ backdrops = W.backdrops
    /\ bodyClasses = W.bodyClasses
    /\ listeners = W.listeners
    /\ log = <<>>
    /\ lastOp = NoOp
    /\ clickRun = [phase |-> "start", k |-> 0, odd |-> FALSE]
    /\ given = W.given
    /\ gesture = NoGesture

\* One Modal, constructed on target 1 with any of the options; then any
\* calls and events.
Init ==
    /\ page \in Pages
    /\ \E options \in OptionInputs :
          InitFrom(Constructor(LoadedPage(page), 1, options))

Next ==
    \/ CallShow(1)
    \/ CallHide(1)
    \/ CallToggle(1)
    \/ \E t \in MouseTargets : \E p \in Pointers : MouseDown(t, p)
    \/ \E t \in MouseTargets : \E p \in Pointers : MouseMove(t, p)
    \/ \E t \in MouseTargets : \E p \in Pointers : MouseUp(t, p)
    \/ \E key \in Keys : KeyDown(key)

Spec == Init /\ [][Next]_vars

\* The target element of the j-th Modal of a page script that constructs
\* several: targets 1, 2, 1, ...
TargetOf(j) == ((j - 1) % Cardinality(Targets)) + 1

\* new Modal(TargetOf(j), options[j]) for j = k .. Len(options).
RECURSIVE ConstructAll(_, _, _)
ConstructAll(W, options, k) ==
    IF k > Len(options)
    THEN W
    ELSE ConstructAll(Constructor(W, TargetOf(k), options[k]), options, k + 1)

\* One to MaxModals Modals on a page with closed markup, the first with the
\* default options or not closable, the others not closable; then any
\* show(), hide() and toggle() calls.
InitCalls ==
    /\ page = PageWith(ClosedMarkup)
    /\ \E n \in 1..MaxModals : \E first \in {<<>>, [closable |-> FALSE]} :
          InitFrom(ConstructAll(LoadedPage(page),
                       [j \in 1..n |->
                           IF j = 1 THEN first ELSE [closable |-> FALSE]],
                       1))

NextCalls ==
    \/ \E i \in 1..MaxModals : CallShow(i)
    \/ \E i \in 1..MaxModals : CallHide(i)
    \/ \E i \in 1..MaxModals : CallToggle(i)

SpecCalls == InitCalls /\ [][NextCalls]_vars

\* One Modal, constructed with any of the options on a target with any
\* markup; then any show(), hide() and toggle() calls.
InitMarkup ==
    /\ page \in AllPages
    /\ \E options \in OptionInputs :
          InitFrom(Constructor(LoadedPage(page), 1, options))

NextMarkup ==
    \/ CallShow(1)
    \/ CallHide(1)
    \/ CallToggle(1)

SpecMarkup == InitMarkup /\ [][NextMarkup]_vars

\* A page no script has touched; then initModals(), clicks on the triggers,
\* key presses and pointer releases.
InitPage ==
    /\ page \in Pages
    /\ InitFrom(LoadedPage(page))

NextPage ==
    \/ CallInitModals
    \/ \E k \in 1..Len(page.triggers) : Click(k)
    \/ \E t \in MouseTargets : \E p \in Pointers : MouseUp(t, p)
    \/ \E key \in Keys : KeyDown(key)

SpecPage == InitPage /\ [][NextPage]_vars

\* The options arguments of the constructor: those of OptionInputs, none
\* (the parameter's default, Default itself), one callback, and every
\* option set.
AllOptionInputs ==
    OptionInputs \cup
        {Default,
         [onShow |-> "cb"],
         [placement |-> "top-left", backdropClasses |-> "custom",
          backdrop |-> "static", closable |-> FALSE,
          onHide |-> "cb", onShow |-> "cb", onToggle |-> "cb"]}

\* new Modal(el, options), el the target element e, or null when e = 0.
CallNew(e, options) ==
    Commit(Constructor(World, e, options),
           Op("new", 0, IF e = 0 THEN NullNode ELSE TargetNode(e), ""), 0)

\* A page no script has touched; then Modals constructed on target 1, or on
\* no target, with any options, or by initModals(), and the first of them
\* toggled.
InitOptions ==
    /\ page = PageWith(ClosedMarkup)
    /\ InitFrom(LoadedPage(page))

NextOptions ==
    \/ \E options \in AllOptionInputs : CallNew(1, options)
    \/ \E options \in AllOptionInputs : CallNew(0, options)
    \/ CallInitModals
    \/ CallToggle(1)

SpecOptions == InitOptions /\ [][NextOptions]_vars

\* The pointer positions (pageX, pageY) of the gestures' events.
GesturePointers == {<<0, 0>>, <<60, 30>>}

\* The elements the gestures' events target: the resize handle, the drag
\* anchor, a button inside the anchor, and the rest of the page.
GestureTargets ==
    {ResizeHandleNode(1), DragAnchorNode(1), DragButtonNode(1), BodyNode}

\* One Modal with a resize handle and a drag anchor; then any pointer-down,
\* move and pointer-up events.
InitGesture ==
    /\ page = PageWith(ClosedMarkup)
    /\ InitFrom(Constructor(LoadedPage(page), 1, <<>>))

NextGesture ==
    \/ \E t \in GestureTargets : \E p \in GesturePointers : MouseDown(t, p)
    \/ \E t \in GestureTargets : \E p \in GesturePointers : MouseMove(t, p)
    \/ \E t \in GestureTargets : \E p \in GesturePointers : MouseUp(t, p)

SpecGesture == InitGesture /\ [][NextGesture]_vars

\* A trigger element carrying attr="id".
Trigger(attr, id) == [attr |-> attr, id |-> id]

\* Pages whose triggers share targets or name none.  The first: one
\* trigger of each kind for target 1.  The second: two data-modal-target
\* and two data-modal-toggle triggers for target 1, and a show and a hide
\* trigger.  The third: a trigger of each kind for id 3, which no element
\* has, a show and a hide trigger for target 2, which no data-modal-target
\* or data-modal-toggle trigger names, and, after them in their loops, a
\* toggle and a show trigger for target 1.
TriggerPages ==
    {[PageWith(ClosedMarkup) EXCEPT !.triggers = triggers] :
        triggers \in
            {<<Trigger("data-modal-target", 1),
               Trigger("data-modal-toggle", 1),
               Trigger("data-modal-show", 1),
               Trigger("data-modal-hide", 1)>>,
             <<Trigger("data-modal-target", 1),
               Trigger("data-modal-target", 1),
               Trigger("data-modal-toggle", 1),
               Trigger("data-modal-toggle", 1),
               Trigger("data-modal-show", 1),
               Trigger("data-modal-hide", 1)>>,
             <<Trigger("data-modal-target", 3),
               Trigger("data-modal-toggle", 3),
               Trigger("data-modal-toggle", 1),
               Trigger("data-modal-show", 3),
               Trigger("data-modal-hide", 3),
               Trigger("data-modal-show", 2),
               Trigger("data-modal-hide", 2),
               Trigger("data-modal-show", 1)>>}}

\* One of these pages, untouched; then initModals() and clicks on the
\* triggers.
InitTriggers ==
    /\ page \in TriggerPages
    /\ InitFrom(LoadedPage(page))

NextTriggers ==
    \/ CallInitModals
    \/ \E k \in 1..Len(page.triggers) : Click(k)

SpecTriggers == InitTriggers /\ [][NextTriggers]_vars

\* ------------------------------------------------------------------ claims
Count(seq, x) == Cardinality({k \in 1..Len(seq) : seq[k] = x})

VisibleModals == {i \in 1..Len(insts) : ~insts[i]._isHidden}

\* C1 (as claimed): a show() call invokes onShow once if the modal was
\* hidden and not at all if it was visible; a hide() call invokes onHide
\* once if the modal was visible and not at all if it was hidden.
C1_CallbackOnlyOnStateChange ==
    /\ lastOp.op = "show" =>
          Count(log, <<"onShow", lastOp.inst>>) =
              IF lastOp.wasHidden THEN 1 ELSE 0
    /\ lastOp.op = "hide" =>
          Count(log, <<"onHide", lastOp.inst>>) =
              IF lastOp.wasHidden THEN 0 ELSE 1

\* C2 (as claimed): show() on a visible modal and hide() on a hidden modal
\* change neither the target's classes and attributes, nor the backdrops,
\* nor the body's classes, nor the visibility flag, nor the listeners.
C2_RedundantCallIsNoOp ==
    [][(\/ lastOp'.op = "show" /\ ~lastOp'.wasHidden
        \/ lastOp'.op = "hide" /\ lastOp'.wasHidden)
       => /\ UNCHANGED <<els, backdrops, bodyClasses, listeners>>
          /\ insts'[lastOp'.inst]._isHidden = insts[lastOp'.inst]._isHidden
      ]_vars

\* C3 (as claimed): while a modal is hidden, none of the mouseup and keydown
\* closures its show() registered is still registered on any node.
C3_NoCloseListenerWhileHidden ==
    \A i \in 1..Len(insts) :
        insts[i]._isHidden =>
            \A node \in DOMAIN listeners :
                CloseListeners(listeners[node], i) = {}

\* C4: the backdrop elements in the document are as many as the visible
\* modals (and no element is in the document twice).
C4_BackdropPerVisibleModal ==
    /\ Len(backdrops) = Cardinality(VisibleModals)
    /\ Cardinality({backdrops[k] : k \in 1..Len(backdrops)}) = Len(backdrops)

\* C4's case: of several modals, one has been hidden by hide() while
\* another stays visible, and one backdrop is left.
C4_Witness ==
    /\ Len(insts) >= 2
    /\ lastOp.op = "hide" /\ ~lastOp.wasHidden
    /\ Cardinality(VisibleModals) = 1
    /\ Len(backdrops) = 1

\* The target is in the closed state: class "hidden" and not "flex",
\* aria-hidden="true", neither aria-modal nor role.
IsClosed(el) ==
    /\ "hidden" \in el.classes
    /\ "flex" \notin el.classes
    /\ {a \in el.attrs : a[1] \in {"aria-hidden", "aria-modal", "role"}}
          = {<<"aria-hidden", "true">>}

\* The last two operations were show() on a hidden modal and then hide() on
\* the same modal.
ShowThenHide == lastOp.op = "hide" /\ lastOp.prev = "show"

\* The target's classes and attributes are those before the show(), and no
\* backdrop is in the document.
RestoredAfterShowHide ==
    LET e == insts[lastOp.inst]._targetEl
    IN  /\ els[e].classes = lastOp.pre.classes
        /\ els[e].attrs = lastOp.pre.attrs
        /\ backdrops = <<>>

\* C5 (as claimed): whatever the target's classes and attributes before,
\* show() then hide() restores them and leaves no backdrop.
C5_ShowHideRestoresAnyMarkup == ShowThenHide => RestoredAfterShowHide

\* C5 (amended): if the target was in the closed state before, show() then
\* hide() restores its classes and attributes and leaves no backdrop.
C5_ShowHideRestoresClosedMarkup ==
    ShowThenHide /\ IsClosed(lastOp.pre) => RestoredAfterShowHide

C5_Witness == ShowThenHide /\ IsClosed(lastOp.pre) /\ RestoredAfterShowHide

\* C6: toggle() on a hidden modal runs show() (onShow) and then onToggle,
\* once; on a visible modal hide() (onHide) and then onToggle, once.
C6_ToggleDispatchesThenCallsBack ==
    lastOp.op = "toggle" =>
        LET i == lastOp.inst
        IN  IF lastOp.wasHidden
            THEN /\ log = <<<<"onShow", i>>, <<"onToggle", i>>>>
                 /\ ~insts[i]._isHidden
            ELSE /\ log = <<<<"onHide", i>>, <<"onToggle", i>>>>
                 /\ insts[i]._isHidden

C6_Witness ==
    /\ lastOp.op = "toggle" /\ ~lastOp.wasHidden
    /\ log = <<<<"onHide", lastOp.inst>>, <<"onToggle", lastOp.inst>>>>

\* After initModals() only the trigger clickRun.k has been clicked, and it
\* carries data-modal-toggle.
OnlyToggleClicks ==
    /\ clickRun.phase = "clicking"
    /\ page.triggers[clickRun.k].attr = "data-modal-toggle"

\* C7: after the n-th click on a data-modal-toggle trigger, the modal of its
\* target is visible iff n is odd; visible, the target has class "flex",
\* lacks "hidden", has aria-modal="true" and one backdrop exists; hidden
\* again, all of that is reversed and no backdrop exists.
C7_ToggleTriggerParity ==
    OnlyToggleClicks =>
        LET e == page.triggers[clickRun.k].id
        IN  \E i \in 1..Len(insts) :
                /\ insts[i]._targetEl = e
                /\ insts[i]._isHidden = ~clickRun.odd
                /\ IF clickRun.odd
                   THEN /\ "flex" \in els[e].classes
                        /\ "hidden" \notin els[e].classes
                        /\ <<"aria-modal", "true">> \in els[e].attrs
                        /\ Len(backdrops) = 1
                   ELSE /\ "flex" \notin els[e].classes
                        /\ "hidden" \in els[e].classes
                        /\ \A a \in els[e].attrs : a[1] # "aria-modal"
                        /\ Len(backdrops) = 0

\* C7's case: a second (fourth, ...) click has hidden the modal again.
C7_Witness ==
    /\ OnlyToggleClicks
    /\ ~clickRun.odd
    /\ log = <<<<"onHide", 2>>, <<"onToggle", 2>>>>
    /\ backdrops = <<>>

\* The Modal of the specification Spec is visible, closable and has the
\* "dynamic" backdrop mode.
DismissibleAndVisible ==
    /\ ~insts[1]._isHidden
    /\ insts[1]._options.closable
    /\ insts[1]._options.backdrop = "dynamic"

\* The step is a mouseup event.
IsMouseUp == lastOp'.op = "mouseup"

\* C8 (as claimed): a mouseup whose target is the backdrop element of a
\* visible, closable modal with backdrop mode "dynamic" hides the modal.
C8_ReleaseOnBackdropCloses ==
    [][(/\ DismissibleAndVisible
        /\ IsMouseUp
        /\ lastOp'.target = BackdropNode(insts[1]._backdropEl))
       => insts'[1]._isHidden
      ]_vars

\* The nodes of the subtree of target element e.
Subtree(e) ==
    {TargetNode(e), InnerNode(e), ResizeHandleNode(e), DragAnchorNode(e),
     DragButtonNode(e)}

\* A mouseup on a proper descendant leaves visibility, classes, attributes
\* and backdrops as they were; the modal is hidden iff the target was hit.
ReleaseHidesIffOnTarget ==
    LET e == insts[1]._targetEl
    IN  /\ insts'[1]._isHidden <=> lastOp'.target = TargetNode(e)
        /\ lastOp'.target # TargetNode(e) =>
              /\ els'[e].classes = els[e].classes
              /\ els'[e].attrs = els[e].attrs
              /\ backdrops' = backdrops

\* C9 (as claimed): for a visible, closable modal with backdrop mode
\* "dynamic", a mouseup inside the target's subtree hides the modal iff its
\* target is the target element itself; on a proper descendant it leaves
\* the modal visible and classes, attributes and backdrop unchanged.
C9_ReleaseInSubtree ==
    [][(/\ DismissibleAndVisible
        /\ IsMouseUp
        /\ lastOp'.target \in Subtree(insts[1]._targetEl))
       => ReleaseHidesIffOnTarget
      ]_vars

\* A resize or drag gesture is under way: its mouseup listener is
\* registered on the document.
GestureUnderWay ==
    \E k \in 1..Len(listeners[DocumentNode]) :
        listeners[DocumentNode][k].type = "mouseup"

\* C9 (amended): the same, for a mouseup that arrives while no resize or
\* drag gesture is under way.
C9_ReleaseInSubtreeNoGesture ==
    [][(/\ DismissibleAndVisible
        /\ ~GestureUnderWay
        /\ IsMouseUp
        /\ lastOp'.target \in Subtree(insts[1]._targetEl))
       => ReleaseHidesIffOnTarget
      ]_vars

\* C9's case: a mouseup on the target element itself has hidden the modal.
C9_Witness ==
    /\ lastOp.op = "mouseup"
    /\ lastOp.target = TargetNode(insts[1]._targetEl)
    /\ insts[1]._isHidden
    /\ insts[1]._options.closable
    /\ insts[1]._options.backdrop = "dynamic"
    /\ Count(log, <<"onHide", 1>>) >= 1
    /\ backdrops = <<>>

\* C10: while a closable modal is visible, a keydown with key Escape hides
\* it, removes its backdrop and invokes onHide; a keydown with another key
\* changes nothing.
C10_EscapeHides ==
    [][(/\ ~insts[1]._isHidden
        /\ insts[1]._options.closable
        /\ lastOp'.op = "keydown")
       => IF lastOp'.key = "Escape"
          THEN /\ insts'[1]._isHidden
               /\ backdrops' = <<>>
               /\ Count(log', <<"onHide", 1>>) >= 1
          ELSE UNCHANGED <<els, insts, backdrops, bodyClasses, listeners>>
      ]_vars

\* C10's case: Escape has hidden the modal.
C10_Witness ==
    /\ lastOp.op = "keydown" /\ lastOp.key = "Escape"
    /\ insts[1]._isHidden
    /\ insts[1]._options.closable
    /\ Count(log, <<"onHide", 1>>) >= 1
    /\ backdrops = <<>>

\* The step is a keydown event with key Escape.
IsEscape == lastOp'.op = "keydown" /\ lastOp'.key = "Escape"

\* C11 (as claimed): unless the modal is closable and has backdrop mode
\* "dynamic", an Escape keydown does not hide it while it is visible.
C11_EscapeOnlyIfDynamicAndClosable ==
    [][(/\ ~insts[1]._isHidden
        /\ ~(/\ insts[1]._options.closable
             /\ insts[1]._options.backdrop = "dynamic")
        /\ IsEscape)
       => ~insts'[1]._isHidden
      ]_vars

\* C11 (amended): an Escape keydown hides a visible modal iff the modal is
\* closable, whatever its backdrop mode.
C11_EscapeIffClosable ==
    [][(~insts[1]._isHidden /\ IsEscape)
       => (insts'[1]._isHidden <=> insts[1]._options.closable)
      ]_vars

\* C11's case: Escape has hidden a closable modal whose backdrop mode is
\* not "dynamic".
C11_Witness ==
    /\ lastOp.op = "keydown" /\ lastOp.key = "Escape"
    /\ insts[1]._options.closable
    /\ insts[1]._options.backdrop # "dynamic"
    /\ insts[1]._isHidden
    /\ log = <<<<"onHide", 1>>>>

\* C12: if the modal is not closable or its backdrop mode is not "dynamic",
\* no mouseup event on any element hides it.
C12_ReleaseOnlyIfDynamicAndClosable ==
    [][(/\ ~insts[1]._isHidden
        /\ ~(/\ insts[1]._options.closable
             /\ insts[1]._options.backdrop = "dynamic")
        /\ IsMouseUp)
       => /\ ~insts'[1]._isHidden
          /\ UNCHANGED <<els, backdrops, bodyClasses>>
          /\ log' = <<>>
      ]_vars

\* C12's case: a mouseup on the target element of a visible, closable modal
\* with a backdrop mode other than "dynamic" has left it visible.
C12_Witness ==
    /\ lastOp.op = "mouseup"
    /\ lastOp.target = TargetNode(insts[1]._targetEl)
    /\ insts[1]._options.closable
    /\ insts[1]._options.backdrop # "dynamic"
    /\ ~insts[1]._isHidden
    /\ Len(backdrops) = 1

\* Option k of object i is the caller's value if the caller set it, and
\* the default d otherwise.
OptionIs(i, k, d) ==
    insts[i]._options[k] = IF k \in DOMAIN given[i] THEN given[i][k] ELSE d

\* C13: of every Modal, each option the caller left unset has its default
\* (placement "center", backdrop "dynamic", closable true, the default
\* backdrop classes, no-op callbacks) and each option the caller set has
\* the caller's value; a Modal given only placement and backdrop, as by
\* initModals, is closable.
C13_UnsetOptionsTakeDefaults ==
    \A i \in 1..Len(insts) :
        /\ OptionIs(i, "placement", "center")
        /\ OptionIs(i, "backdrop", "dynamic")
        /\ OptionIs(i, "closable", TRUE)
        /\ OptionIs(i, "backdropClasses",
                    "bg-black bg-opacity-30 fixed inset-0 z-40")
        /\ OptionIs(i, "onHide", "noop")
        /\ OptionIs(i, "onShow", "noop")
        /\ OptionIs(i, "onToggle", "noop")
        /\ DOMAIN given[i] = {"placement", "backdrop"} =>
              insts[i]._options.closable

\* C13's case: initModals() has constructed the Modals, from the target's
\* data-modal-placement and data-modal-backdrop where present.
C13_Witness ==
    /\ lastOp.op = "initModals"
    /\ \E i \in 1..Len(insts) :
          /\ insts[i]._targetEl = 2
          /\ given[i] = [placement |-> "top-left", backdrop |-> "static"]
          /\ insts[i]._options.closable
          /\ insts[i]._options.onShow = "noop"
    /\ \E i \in 1..Len(insts) :
          /\ insts[i]._targetEl = 1
          /\ insts[i]._options.placement = "center"
          /\ insts[i]._options.backdrop = "dynamic"

\* The width and height a move at the last event's pointer gives a target
\* of size (rW, rH) whose gesture started at (rX0, rY0).
ResizedWidth == gesture.rW + (lastOp.x - gesture.rX0)

ResizedHeight == gesture.rH + (lastOp.y - gesture.rY0)

\* C14: during a resize gesture that started at (x0, y0) on a target of
\* size (w, h), a mousemove at (x, y) sets the width to
\* max(200, w + (x - x0)) and the height to max(100, h + (y - y0)), so
\* that width >= 200 and height >= 100.
C14_ResizeFromRecordedSize ==
    (lastOp.op = "mousemove" /\ gesture.rOn) =>
        /\ els[1].width = IF ResizedWidth >= 200 THEN ResizedWidth ELSE 200
        /\ els[1].height = IF ResizedHeight >= 100 THEN ResizedHeight ELSE 100
        /\ els[1].width >= 200
        /\ els[1].height >= 100

\* C14's case: a move that would make the target narrower than 200 and
\* lower than 100 has left it at 200 by 100.
C14_Witness ==
    /\ lastOp.op = "mousemove" /\ gesture.rOn
    /\ ResizedWidth < 200 /\ ResizedHeight < 100
    /\ els[1].width = 200 /\ els[1].height = 100

\* C15: after any sequence of complete drag gestures from (0, 0), the
\* translation is the sum of the last pointer deltas of the gestures ended
\* plus the delta of the current gesture's last move; a gesture without a
\* move adds nothing.
C15_DragAccumulates ==
    gesture.regular =>
        /\ els[1].translateX = gesture.dSumX + gesture.dLastX
        /\ els[1].translateY = gesture.dSumY + gesture.dLastY

\* C15's case: a move of a second gesture, after a first gesture that
\* ended away from (0, 0).
C15_Witness ==
    /\ gesture.regular /\ gesture.dOn
    /\ lastOp.op = "mousemove"
    /\ gesture.dSumX # 0 /\ gesture.dLastX # 0
    /\ gesture.dSumY # 0 /\ gesture.dLastY # 0
    /\ els[1].translateX = gesture.dSumX + gesture.dLastX
    /\ els[1].translateY = gesture.dSumY + gesture.dLastY

\* The step is a run of initModals().
IsInitModals == lastOp'.op = "initModals"

\* The Modal objects the step has constructed on target element e.
ConstructedOn(e) ==
    {i \in (Len(insts) + 1)..Len(insts') : insts'[i]._targetEl = e}

\* The listeners the step has added to trigger k.
ListenersAdded(k) ==
    SubSeq(listeners'[TriggerNode(k)],
           Len(listeners[TriggerNode(k)]) + 1,
           Len(listeners'[TriggerNode(k)]))

\* The triggers of the page that carry one of the attributes attrs with
\* the id of target e.
TriggersFor(e, attrs) ==
    {k \in 1..Len(page.triggers) :
        page.triggers[k].id = e /\ page.triggers[k].attr \in attrs}

ActingAttrs == {"data-modal-toggle", "data-modal-show", "data-modal-hide"}

\* C16: one run of initModals() constructs at most one Modal per target,
\* and the click handler of every toggle, show and hide trigger of an
\* initialised target is bound to that Modal.
C16_OneModalPerTarget ==
    [][IsInitModals =>
        \A e \in Targets :
            /\ Cardinality(ConstructedOn(e)) <= 1
            /\ ConstructedOn(e) # {} =>
                  \A k \in TriggersFor(e, ActingAttrs) :
                      /\ Len(ListenersAdded(k)) = 1
                      /\ ListenersAdded(k)[1].fn.inst \in ConstructedOn(e)
      ]_vars

\* C16's case: initModals() has run on the page with two data-modal-target
\* and two data-modal-toggle triggers for one target: one Modal, and the
\* four acting triggers bound to it.
C16_Witness ==
    /\ lastOp.op = "initModals"
    /\ Cardinality(TriggersFor(1, {"data-modal-target"})) = 2
    /\ Cardinality(TriggersFor(1, {"data-modal-toggle"})) = 2
    /\ Len(insts) = 1
    /\ \A k \in TriggersFor(1, ActingAttrs) :
          /\ Len(listeners[TriggerNode(k)]) = 1
          /\ listeners[TriggerNode(k)][1].fn.inst = 1

\* The step is a click on a trigger that carries exactly the listeners L.
IsClickWith(L) ==
    /\ lastOp'.op = "click"
    /\ listeners[lastOp'.target] = L

\* The listeners of the trigger clicked are one handler of the given kind.
IsClickOn(kind) ==
    /\ lastOp'.op = "click"
    /\ Len(listeners[lastOp'.target]) = 1
    /\ listeners[lastOp'.target][1].type = "click"
    /\ listeners[lastOp'.target][1].fn.kind = kind

\* The Modal object the clicked trigger's handler is bound to.
ClickedModal == listeners[lastOp'.target][1].fn.inst

\* Every trigger of the attributes attrs for a target initialised by the
\* step has got one click handler.
HandlerBoundFor(attrs) ==
    \A e \in Targets :
        ConstructedOn(e) # {} =>
            \A k \in TriggersFor(e, attrs) :
                /\ Len(ListenersAdded(k)) = 1
                /\ ListenersAdded(k)[1].type = "click"

\* C17 (as claimed): initModals() binds a click handler to every trigger
\* of each of the four kinds whose id resolves to an initialised modal,
\* data-modal-target included.
C17_EveryTriggerBound ==
    [][IsInitModals =>
          HandlerBoundFor(ActingAttrs \cup {"data-modal-target"})
      ]_vars

\* The handler initModals() binds for a trigger attribute.
HandlerOf(attr) ==
    CASE attr = "data-modal-toggle" -> "toggleClick"
      [] attr = "data-modal-show" -> "showClick"
      [] attr = "data-modal-hide" -> "hideClick"

\* C17 (amended): initModals() binds one click handler to every toggle,
\* show and hide trigger of an initialised modal, and none to a
\* data-modal-target trigger; a click on a trigger with one such handler
\* runs toggle(), show() or hide() on that modal, and a click on a trigger
\* without handler changes nothing.
C17_ActingTriggersBound ==
    [][/\ IsInitModals =>
            /\ HandlerBoundFor(ActingAttrs)
            /\ \A k \in 1..Len(page.triggers) :
                  IF page.triggers[k].attr = "data-modal-target"
                  THEN ListenersAdded(k) = <<>>
                  ELSE \A j \in 1..Len(ListenersAdded(k)) :
                          ListenersAdded(k)[j].fn.kind =
                              HandlerOf(page.triggers[k].attr)
       /\ IsClickOn("showClick") =>
            /\ log' = <<<<"onShow", ClickedModal>>>>
            /\ ~insts'[ClickedModal]._isHidden
       /\ IsClickOn("hideClick") =>
            /\ log' = <<<<"onHide", ClickedModal>>>>
            /\ insts'[ClickedModal]._isHidden
       /\ IsClickOn("toggleClick") =>
            /\ insts'[ClickedModal]._isHidden = ~insts[ClickedModal]._isHidden
            /\ log' = <<<<IF insts[ClickedModal]._isHidden
                          THEN "onShow" ELSE "onHide", ClickedModal>>,
                        <<"onToggle", ClickedModal>>>>
       /\ IsClickWith(<<>>) =>
            /\ log' = <<>>
            /\ UNCHANGED <<els, insts, backdrops, bodyClasses, listeners>>
      ]_vars

\* C17's case: a click on a data-modal-show trigger has shown the modal,
\* on a page whose data-modal-target trigger has no handler.
C17_Witness ==
    /\ lastOp.op = "click"
    /\ page.triggers[lastOp.target.n].attr = "data-modal-show"
    /\ log = <<<<"onShow", 1>>>>
    /\ ~insts[1]._isHidden
    /\ \E k \in TriggersFor(1, {"data-modal-target"}) :
          listeners[TriggerNode(k)] = <<>>

\* Trigger k refers to nothing initModals() can bind it to: no element has
\* its id, or it is a show or hide trigger and no data-modal-target or
\* data-modal-toggle trigger names its id.
IsUnresolved(k) ==
    \/ page.triggers[k].id \notin Targets
    \/ /\ page.triggers[k].attr \in {"data-modal-show", "data-modal-hide"}
       /\ TriggersFor(page.triggers[k].id,
                      {"data-modal-target", "data-modal-toggle"}) = {}

\* C18: a run of initModals() does not throw; each unresolved trigger gets
\* one console diagnostic and no click handler, no Modal is constructed
\* for it, and the other acting triggers get their handler all the same.
C18_UnresolvedTriggersSkipped ==
    [][IsInitModals =>
        /\ ~lastOp'.threw
        /\ \A k \in 1..Len(page.triggers) :
              IF IsUnresolved(k)
              THEN /\ Count(log', <<"console.error", k>>) = 1
                   /\ ListenersAdded(k) = <<>>
              ELSE /\ Count(log', <<"console.error", k>>) = 0
                   /\ page.triggers[k].attr \in ActingAttrs =>
                         Len(ListenersAdded(k)) = 1
        /\ Len(insts') - Len(insts) =
              Cardinality({e \in Targets :
                  TriggersFor(e, {"data-modal-target",
                                  "data-modal-toggle"}) # {}})
      ]_vars

\* C18's case: initModals() has run on the page with triggers for the
\* missing id 3 and for the uninitialised target 2: six diagnostics, one
\* Modal, and the triggers for target 1 bound.
C18_Witness ==
    /\ lastOp.op = "initModals" /\ ~lastOp.threw
    /\ Cardinality({k \in 1..Len(page.triggers) : IsUnresolved(k)}) = 6
    /\ Len(log) = 6
    /\ \A k \in 1..Len(page.triggers) :
          IsUnresolved(k) <=> listeners[TriggerNode(k)] = <<>>
    /\ Len(insts) = 1 /\ insts[1]._targetEl = 1

\* The document carries the move and the up listener of the drag gesture.
DragListenersOn(L) ==
    /\ \E k \in 1..Len(L) :
          L[k] = [type |-> "mousemove", fn |-> Fn("_onDragMouseMove", 1, 0)]
    /\ \E k \in 1..Len(L) :
          L[k] = [type |-> "mouseup", fn |-> Fn("_onDragMouseUp", 1, 0)]

\* C19: a pointer-down on a button inside the drag anchor records no
\* pointer position, attaches no listener, stops and prevents nothing and
\* leaves translation and baseline as they were; a pointer-down elsewhere
\* on the anchor records the pointer position and attaches the document's
\* move and up listeners.
C19_PointerDownOnControlIgnored ==
    [][/\ (lastOp'.op = "mousedown" /\ lastOp'.target = DragButtonNode(1)) =>
            /\ UNCHANGED <<els, insts, listeners>>
            /\ ~lastOp'.stopped /\ ~lastOp'.prevented
       /\ (lastOp'.op = "mousedown" /\ lastOp'.target = DragAnchorNode(1)) =>
            /\ insts'[1]._dragMouseDownX = lastOp'.x
            /\ insts'[1]._dragMouseDownY = lastOp'.y
            /\ DragListenersOn(listeners'[DocumentNode])
            /\ lastOp'.stopped /\ lastOp'.prevented
            /\ els' = els
      ]_vars

\* C19's case: after a gesture that moved the target, a pointer-down on the
\* button, away from the last pointer-down, has started no gesture.
C19_Witness ==
    /\ lastOp.op = "mousedown" /\ lastOp.target = DragButtonNode(1)
    /\ ~lastOp.stopped
    /\ els[1].translateX # 0
    /\ insts[1]._dragMouseDownX # lastOp.x
    /\ listeners[DocumentNode] = <<>>

\* The listeners among L that belong to the gestures named by kinds.
GestureListeners(L, kinds) == {k \in 1..Len(L) : L[k].fn.kind \in kinds}

ResizeKinds == {"_onResizeMouseMove", "_onResizeMouseUp"}

DragKinds == {"_onDragMouseMove", "_onDragMouseUp"}

\* C20: after a pointer-up the document carries no move or up listener of
\* either gesture, however many pointer-downs came before it; and while no
\* resize (drag) gesture is under way, the document carries none of its
\* listeners and a mousemove changes neither size (nor translation).
C20_PointerUpEndsGesture ==
    [][/\ lastOp'.op = "mouseup" =>
            GestureListeners(listeners'[DocumentNode],
                             ResizeKinds \cup DragKinds) = {}
       /\ ~gesture'.rOn =>
            GestureListeners(listeners'[DocumentNode], ResizeKinds) = {}
       /\ ~gesture'.dOn =>
            GestureListeners(listeners'[DocumentNode], DragKinds) = {}
       /\ (lastOp'.op = "mousemove" /\ ~gesture.rOn) =>
            /\ els'[1].width = els[1].width
            /\ els'[1].height = els[1].height
       /\ (lastOp'.op = "mousemove" /\ ~gesture.dOn) =>
            /\ els'[1].translateX = els[1].translateX
            /\ els'[1].translateY = els[1].translateY
      ]_vars

\* C20's case: after repeated pointer-downs on the anchor, moves and one
\* pointer-up of a resize and a drag gesture, a mousemove away from where
\* the gestures started has changed nothing.
C20_Witness ==
    /\ lastOp.op = "mousemove"
    /\ ~gesture.rOn /\ ~gesture.dOn /\ ~gesture.regular
    /\ lastOp.x # gesture.rX0 /\ lastOp.x # gesture.dX0
    /\ els[1].width = 310
    /\ els[1].translateX = 60
    /\ listeners[DocumentNode] = <<>>

\* C21 (as claimed): while the modal is hidden, an Escape keydown or a
\* mouseup on any element invokes no onHide and changes neither the
\* target's classes and attributes nor the visibility flag.
C21_HiddenModalIgnoresEvents ==
    [][(insts[1]._isHidden /\ (IsEscape \/ IsMouseUp))
       => /\ Count(log', <<"onHide", 1>>) = 0
          /\ els'[insts[1]._targetEl].classes = els[insts[1]._targetEl].classes
          /\ els'[insts[1]._targetEl].attrs = els[insts[1]._targetEl].attrs
          /\ insts'[1]._isHidden
      ]_vars

\* C22 (as claimed): document.body carries the class "overflow-hidden" iff
\* at least one modal is visible.
C22_ScrollLockedIffSomeVisible ==
    ("overflow-hidden" \in bodyClasses) <=> (VisibleModals # {})

\* The backdrop elements attached to the document.
AttachedBackdrops == {backdrops[k] : k \in 1..Len(backdrops)}

\* C23 (as claimed): each visible modal's own backdrop element is attached
\* to the document, and every attached backdrop is that of a visible
\* modal.
C23_HideRemovesOwnBackdrop ==
    /\ \A i \in VisibleModals : insts[i]._backdropEl \in AttachedBackdrops
    /\ \A b \in AttachedBackdrops :
          \E i \in VisibleModals : insts[i]._backdropEl = b

\* C24 (as claimed): new Modal(null, options) completes without throwing and
\* yields one more Modal, a hidden one with no target element.
C24_NullTargetConstructs ==
    [][(lastOp'.op = "new" /\ lastOp'.target = NullNode)
       => /\ ~lastOp'.threw
          /\ Len(insts') = Len(insts) + 1
          /\ insts'[Len(insts')]._targetEl = 0
          /\ insts'[Len(insts')]._isHidden
      ]_vars

\* The Modal objects whose target is element e.
ModalsOn(e) == {i \in 1..Len(insts) : insts[i]._targetEl = e}

\* The step is a click on a data-modal-toggle trigger that initModals() has
\* bound a handler to.
IsBoundToggleClick ==
    /\ lastOp'.op = "click"
    /\ \E k \in 1..Len(page.triggers) :
          /\ lastOp'.target = TriggerNode(k)
          /\ page.triggers[k].attr = "data-modal-toggle"
          /\ listeners[TriggerNode(k)] # <<>>

\* C25 (as claimed): however often initModals() has run, there is at most
\* one Modal per target and one click handler per trigger; a click on a
\* bound data-modal-toggle trigger with every modal hidden and no backdrop
\* in the document shows one modal and creates exactly one backdrop, and
\* the next click on it hides the modal and leaves no backdrop.
C25_RepeatedInitKeepsOneModal ==
    [][/\ \A e \in Targets : Cardinality(ModalsOn(e)') <= 1
       /\ \A k \in 1..Len(page.triggers) :
             Len(listeners'[TriggerNode(k)]) <= 1
       /\ (IsBoundToggleClick /\ VisibleModals = {} /\ backdrops = <<>>)
             => /\ Cardinality(VisibleModals') = 1
                /\ Len(backdrops') = 1
       /\ (IsBoundToggleClick /\ Cardinality(VisibleModals) = 1
              /\ Len(backdrops) = 1)
             => /\ VisibleModals' = {}
                /\ backdrops' = <<>>
      ]_vars

====
